---- MODULE Spec2Model ----
(***************************************************************************)
(* State-machine model of the storage canister in                          *)
(* src/decentralized_file_storage_backend/src/lib.rs.                      *)
(*                                                                         *)
(* The canister state is the thread-local FileStorage (files, file_chunks, *)
(* storage_usage, max_storage_size).  Every #[update] / #[query] entry     *)
(* point is one atomic action: the IC executes one message at a time and   *)
(* each handler runs to completion inside STATE.with.                      *)
(*                                                                         *)
(* Byte vectors (Vec<u8>) are kept run-length encoded: a content is a      *)
(* sequence of runs [byte |-> b, n |-> k] standing for k copies of b, in   *)
(* normal form (every n > 0, neighbouring runs differ in byte).  Two byte  *)
(* vectors are equal exactly when their normal forms are equal, so the     *)
(* program's size constants keep their real values.                        *)
(***************************************************************************)
EXTENDS Integers, Sequences, FiniteSets, TLC

\* ------------------------------------------------------------ constants
MAX_FILE_SIZE == 10 * 1024 * 1024
CHUNK_SIZE == 1024 * 1024
MAX_STORAGE_SIZE == 1024 * 1024 * 1024
NANOS_PER_SEC == 1000000000

\* ------------------------------------------------------------ bounds
\* Successful upload_file and create_file_version calls explored from an
\* initial state.
MaxWrites == 3
\* The clock runs from 0 to MaxTime seconds.
MaxTime == 1

\* ------------------------------------------------------------ byte vectors
Run(b, k) == [byte |-> b, n |-> k]

\* content.len()
RECURSIVE ByteLen(_)
ByteLen(c) == IF c = <<>> THEN 0 ELSE Head(c).n + ByteLen(Tail(c))

\* &content[..k] for k <= len, all of content otherwise
RECURSIVE TakeBytes(_, _)
TakeBytes(c, k) ==
    IF k = 0 \/ c = <<>> THEN <<>>
    ELSE IF Head(c).n <= k
         THEN <<Head(c)>> \o TakeBytes(Tail(c), k - Head(c).n)
         ELSE <<Run(Head(c).byte, k)>>

\* &content[k..] for k <= len, empty otherwise
RECURSIVE DropBytes(_, _)
DropBytes(c, k) ==
    IF k = 0 \/ c = <<>> THEN c
    ELSE IF Head(c).n <= k
         THEN DropBytes(Tail(c), k - Head(c).n)
         ELSE <<Run(Head(c).byte, Head(c).n - k)>> \o Tail(c)

\* x followed by y, as one byte vector in normal form
JoinBytes(x, y) ==
    IF x = <<>> THEN y
    ELSE IF y = <<>> THEN x
    ELSE IF x[Len(x)].byte = y[1].byte
         THEN SubSeq(x, 1, Len(x) - 1)
              \o <<Run(y[1].byte, x[Len(x)].n + y[1].n)>>
              \o Tail(y)
         ELSE x \o y

\* The blocks of a chunk shard put back together in order.
RECURSIVE Reassemble(_)
Reassemble(blocks) ==
    IF blocks = <<>> THEN <<>>
    ELSE JoinBytes(Head(blocks), Reassemble(Tail(blocks)))

\* A variant that silently drops a short trailing block.
RECURSIVE chunks_exact(_, _)
chunks_exact(c, size) ==
    IF ByteLen(c) < size THEN <<>>
    ELSE <<TakeBytes(c, size)>> \o chunks_exact(DropBytes(c, size), size)

\* content.chunks(size).map(|chunk| chunk.to_vec()).collect()
RECURSIVE chunks(_, _)
chunks(c, size) ==
    IF c = <<>> THEN <<>>
    ELSE <<TakeBytes(c, size)>> \o chunks(DropBytes(c, size), size)

\* ------------------------------------------------------------ inputs
\* "a_1" is also the version id of "a" at timestamp 1.
Names == {"a", "a_1"}

Bytes123 == <<Run(1, 1), Run(2, 1), Run(3, 1)>>
Bytes1234 == <<Run(1, 1), Run(2, 1), Run(3, 1), Run(4, 1)>>
BytesAtCap == <<Run(4, 1), Run(5, MAX_FILE_SIZE - 1)>>
BytesOverCap == <<Run(4, 1), Run(5, MAX_FILE_SIZE)>>

\* (content, file_type, tags) given to upload_file: small files
Uploads ==
    {[content |-> Bytes123,     file_type |-> "text",  tags |-> <<"draft">>],
     [content |-> Bytes1234,    file_type |-> "image", tags |-> <<"draft", "x">>],
     [content |-> BytesOverCap, file_type |-> "image", tags |-> <<>>]}

\* (content, file_type, tags) given to upload_file: files at the size limit
CapUploads ==
    {[content |-> Bytes123,     file_type |-> "text",  tags |-> <<"draft">>],
     [content |-> BytesAtCap,   file_type |-> "image", tags |-> <<"draft", "x">>],
     [content |-> BytesOverCap, file_type |-> "image", tags |-> <<>>]}

\* Option<Vec<String>> given to update_file_metadata: <<>> is None, <<t>> is Some(t)
OptTagLists == {<<>>, <<<<"x">>>>}

\* contents given to create_file_version
VersionContents == {<<>>, BytesOverCap}

\* tags given to search_by_tags
TagQueries == {<<>>, <<"x">>, <<"x", "draft", "x">>}

\* ------------------------------------------------------------ state
VARIABLES
    files,            \* FileStorage.files: name -> File
    file_chunks,      \* FileStorage.file_chunks: key -> sequence of blocks
    storage_usage,    \* FileStorage.storage_usage
    max_storage_size, \* FileStorage.max_storage_size
    time,             \* ic_cdk::api::time(), nanoseconds
    ret,              \* the reply of the latest call
    uploaded,         \* history: name -> {content of the upload that is live}
    made,             \* history: the versions recorded for live files
    writes            \* successful uploads and versions so far (bounds the run)

vars == <<files, file_chunks, storage_usage, max_storage_size, time, ret,
          uploaded, made, writes>>
store == <<files, file_chunks, storage_usage, max_storage_size>>

\* HashMap::insert and HashMap::remove on a map kept as a function
Insert(m, k, v) == [x \in DOMAIN m \cup {k} |-> IF x = k THEN v ELSE m[x]]
Remove(m, k) == [x \in DOMAIN m \ {k} |-> m[x]]
EmptyMap == [x \in {} |-> {}]

get_current_timestamp == time \div NANOS_PER_SEC

Reply(op, name, res, out) == [op |-> op, name |-> name, res |-> res, out |-> out]

Init ==
    /\ files = EmptyMap
    /\ file_chunks = EmptyMap
    /\ storage_usage = 0
    /\ max_storage_size = MAX_STORAGE_SIZE
    /\ time = 0
    /\ ret = Reply("init", "", "Ok", {})
    /\ uploaded = [n \in Names |-> {}]
    /\ made = {}
    /\ writes = 0

\* ------------------------------------------------------------ upload_file
\* content.len() > MAX_FILE_SIZE
over_file_size(len) == len > MAX_FILE_SIZE

\* A variant that refuses an upload that fills the store exactly.
over_capacity_inclusive(usage, len, max) == usage + len >= max

\* A variant that forgets the incoming content in the capacity check.
over_capacity_ignores_len(usage, len, max) == usage > max

\* storage.storage_usage + content.len() > storage.max_storage_size
over_capacity(usage, len, max) == usage + len > max

\* FileMetadata { .. } and File { .. } as upload_file builds them
new_file(name, content, file_type, tags, ts) ==
    [name     |-> name,
     content  |-> content,
     metadata |-> [name             |-> name,
                   size             |-> ByteLen(content),
                   upload_timestamp |-> ts,
                   last_modified    |-> ts,
                   file_type        |-> file_type,
                   is_encrypted     |-> FALSE,
                   version_history  |-> <<>>,
                   tags             |-> tags]]

\* A variant that gives back the bytes of the file it overwrites.
upload_file_rebalanced(name, content, file_type, tags) ==
    /\ writes < MaxWrites
    /\ IF over_file_size(ByteLen(content))
          \/ over_capacity(storage_usage, ByteLen(content), max_storage_size)
       THEN /\ ret' = Reply("upload_file", name, "StorageLimit", {})
            /\ UNCHANGED <<store, uploaded, made, writes>>
       ELSE /\ files' = Insert(files, name,
                   new_file(name, content, file_type, tags, get_current_timestamp))
            /\ file_chunks' = Insert(file_chunks, name, chunks(content, CHUNK_SIZE))
            /\ storage_usage' =
                  storage_usage + ByteLen(content)
                  - (IF name \in DOMAIN files THEN ByteLen(files[name].content) ELSE 0)
            /\ ret' = Reply("upload_file", name, "Ok", {})
            /\ uploaded' = [uploaded EXCEPT ![name] = {content}]
            /\ writes' = writes + 1
            /\ UNCHANGED <<max_storage_size, made>>
    /\ UNCHANGED time

upload_file(name, content, file_type, tags) ==
    /\ writes < MaxWrites
    /\ IF over_file_size(ByteLen(content))
          \/ over_capacity(storage_usage, ByteLen(content), max_storage_size)
       THEN /\ ret' = Reply("upload_file", name, "StorageLimit", {})
            /\ UNCHANGED <<store, uploaded, made, writes>>
       ELSE /\ files' = Insert(files, name,
                   new_file(name, content, file_type, tags, get_current_timestamp))
            /\ file_chunks' = Insert(file_chunks, name, chunks(content, CHUNK_SIZE))
            /\ storage_usage' = storage_usage + ByteLen(content)
            /\ ret' = Reply("upload_file", name, "Ok", {})
            /\ uploaded' = [uploaded EXCEPT ![name] = {content}]
            /\ writes' = writes + 1
            /\ UNCHANGED <<max_storage_size, made>>
    /\ UNCHANGED time

\* ------------------------------------------------------------ download_file
download_file(name) ==
    /\ ret' = IF name \in DOMAIN files
              THEN Reply("download_file", name, "Ok", {files[name]})
              ELSE Reply("download_file", name, "FileNotFound", {})
    /\ UNCHANGED <<store, time, uploaded, made, writes>>

\* ------------------------------------------------------------ delete_file
\* A variant that forgets to give the deleted bytes back.
usage_after_delete_kept(usage, len) == usage

\* storage.storage_usage -= file.content.len()
usage_after_delete(usage, len) == usage - len

\* A variant that drops the chunk shard before looking the file up.
delete_file_shard_first(name) ==
    /\ file_chunks' = Remove(file_chunks, name)
    /\ IF name \in DOMAIN files
       THEN /\ files' = Remove(files, name)
            /\ storage_usage' = usage_after_delete(storage_usage, ByteLen(files[name].content))
            /\ ret' = Reply("delete_file", name, "Ok", {})
            /\ uploaded' = [uploaded EXCEPT ![name] = {}]
            /\ made' = {v \in made : v.name # name}
       ELSE /\ ret' = Reply("delete_file", name, "FileNotFound", {})
            /\ UNCHANGED <<files, storage_usage, uploaded, made>>
    /\ UNCHANGED <<max_storage_size, time, writes>>

delete_file(name) ==
    /\ IF name \in DOMAIN files
       THEN /\ files' = Remove(files, name)
            /\ storage_usage' = usage_after_delete(storage_usage, ByteLen(files[name].content))
            /\ file_chunks' = Remove(file_chunks, name)
            /\ ret' = Reply("delete_file", name, "Ok", {})
            /\ uploaded' = [uploaded EXCEPT ![name] = {}]
            /\ made' = {v \in made : v.name # name}
            /\ UNCHANGED max_storage_size
       ELSE /\ ret' = Reply("delete_file", name, "FileNotFound", {})
            /\ UNCHANGED <<store, uploaded, made>>
    /\ UNCHANGED <<time, writes>>

\* ------------------------------------------------------------ update_file_metadata
\* A variant that extends the tag list instead of replacing it.
touch_merge(file, new_tags, ts) ==
    [file EXCEPT !.metadata.tags = IF new_tags = <<>> THEN @ ELSE @ \o new_tags[1],
                 !.metadata.last_modified = ts]

\* if let Some(tags) = new_tags { .. }; last_modified = now
touch(file, new_tags, ts) ==
    [file EXCEPT !.metadata.tags = IF new_tags = <<>> THEN @ ELSE new_tags[1],
                 !.metadata.last_modified = ts]

update_file_metadata(name, new_tags) ==
    /\ IF name \in DOMAIN files
       THEN /\ files' = [files EXCEPT ![name] =
                            touch(@, new_tags, get_current_timestamp)]
            /\ ret' = Reply("update_file_metadata", name, "Ok", {})
       ELSE /\ ret' = Reply("update_file_metadata", name, "FileNotFound", {})
            /\ UNCHANGED files
    /\ UNCHANGED <<file_chunks, storage_usage, max_storage_size, time,
                   uploaded, made, writes>>

\* ------------------------------------------------------------ create_file_version
\* format!("{}_{}", name, get_current_timestamp())
version_id(name, ts) == name \o "_" \o ToString(ts)

\* A variant that promotes the supplied content to the current content.
push_version_promote(file, id, content, ts) ==
    [file EXCEPT !.metadata.version_history = Append(@, id),
                 !.content = content]

\* A variant that records the newest version first.
push_version_front(file, id, content, ts) ==
    [file EXCEPT !.metadata.version_history = <<id>> \o @]

\* A variant that also refreshes last_modified.
push_version_touch(file, id, content, ts) ==
    [file EXCEPT !.metadata.version_history = Append(@, id),
                 !.metadata.last_modified = ts]

\* file.metadata.version_history.push(version_id.clone())
push_version(file, id, content, ts) ==
    [file EXCEPT !.metadata.version_history = Append(@, id)]

create_file_version(name, content) ==
    /\ IF name \in DOMAIN files
       THEN LET id == version_id(name, get_current_timestamp) IN
            /\ writes < MaxWrites
            /\ files' = [files EXCEPT ![name] =
                            push_version(@, id, content, get_current_timestamp)]
            /\ file_chunks' = Insert(file_chunks, id, chunks(content, CHUNK_SIZE))
            /\ ret' = Reply("create_file_version", name, "Ok", {})
            /\ made' = made \cup {[name |-> name, id |-> id, content |-> content]}
            /\ writes' = writes + 1
       ELSE /\ ret' = Reply("create_file_version", name, "FileNotFound", {})
            /\ UNCHANGED <<files, file_chunks, made, writes>>
    /\ UNCHANGED <<storage_usage, max_storage_size, time, uploaded>>

\* ------------------------------------------------------------ search_by_tags
\* A variant that accepts a file holding any one of the query tags.
matches_any(file, tags) ==
    \E i \in 1..Len(tags) :
        \E j \in 1..Len(file.metadata.tags) : file.metadata.tags[j] = tags[i]

\* tags.iter().all(|tag| file.metadata.tags.contains(tag))
matches(file, tags) ==
    \A i \in 1..Len(tags) :
        \E j \in 1..Len(file.metadata.tags) : file.metadata.tags[j] = tags[i]

\* The Vec<File> comes in the HashMap's iteration order, which the program
\* does not fix: the reply is kept as the set of its elements (each stored
\* file occurs in it at most once).
search_by_tags(tags) ==
    /\ ret' = Reply("search_by_tags", "", "Ok",
                    {files[n] : n \in {m \in DOMAIN files : matches(files[m], tags)}})
    /\ UNCHANGED <<store, time, uploaded, made, writes>>

\* ------------------------------------------------------------ get_storage_analytics
\* A variant that counts the chunk shards instead of the files.
analytics_of_shards(usage, max, fs, shards) ==
    [usage |-> usage, capacity |-> max, count |-> Cardinality(DOMAIN shards)]

\* (storage.storage_usage, storage.max_storage_size, storage.files.len())
analytics(usage, max, fs, shards) ==
    [usage |-> usage, capacity |-> max, count |-> Cardinality(DOMAIN fs)]

get_storage_analytics ==
    /\ ret' = Reply("get_storage_analytics", "", "Ok",
                    {analytics(storage_usage, max_storage_size, files, file_chunks)})
    /\ UNCHANGED <<store, time, uploaded, made, writes>>

\* ------------------------------------------------------------ get_file_type_distribution
\* A variant whose first sighting of a type counts double (or_insert(1)).
distribution_from_one(fs) ==
    [t \in {fs[n].metadata.file_type : n \in DOMAIN fs} |->
        Cardinality({n \in DOMAIN fs : fs[n].metadata.file_type = t}) + 1]

\* for file in files.values() { *distribution.entry(type).or_insert(0) += 1 }
distribution(fs) ==
    [t \in {fs[n].metadata.file_type : n \in DOMAIN fs} |->
        Cardinality({n \in DOMAIN fs : fs[n].metadata.file_type = t})]

get_file_type_distribution ==
    /\ ret' = Reply("get_file_type_distribution", "", "Ok",
                    {[counts |-> distribution(files)]})
    /\ UNCHANGED <<store, time, uploaded, made, writes>>

\* ------------------------------------------------------------ the clock
\* Between two messages the IC's clock stands still or moves forward.
Tick ==
    /\ get_current_timestamp < MaxTime
    /\ time' = time + NANOS_PER_SEC
    /\ UNCHANGED <<store, ret, uploaded, made, writes>>

\* One update call or download handled, or the clock moving; U is what
\* clients upload.
Step(U) ==
    \/ \E n \in Names, u \in U :
          upload_file(n, u.content, u.file_type, u.tags)
    \/ \E n \in Names : download_file(n)
    \/ \E n \in Names : delete_file(n)
    \/ \E n \in Names, nt \in OptTagLists : update_file_metadata(n, nt)
    \/ \E n \in Names, c \in VersionContents : create_file_version(n, c)
    \/ Tick

\* One of the three reporting queries handled.
Query ==
    \/ \E q \in TagQueries : search_by_tags(q)
    \/ get_storage_analytics
    \/ get_file_type_distribution

Next == Step(Uploads)

Spec == Init /\ [][Next]_vars

\* The update calls with the reporting queries in place of download_file.
\* The queries and download_file write nothing but ret, so the storage
\* states reached are those of Spec.
NextQueries ==
    \/ \E n \in Names, u \in Uploads :
          upload_file(n, u.content, u.file_type, u.tags)
    \/ \E n \in Names : delete_file(n)
    \/ \E n \in Names, nt \in OptTagLists : update_file_metadata(n, nt)
    \/ \E n \in Names, c \in VersionContents : create_file_version(n, c)
    \/ Tick
    \/ Query

SpecQueries == Init /\ [][NextQueries]_vars

\* The same canister after earlier traffic has brought storage_usage close
\* to the ceiling: uploading under one name contents of lengths l1..lk,
\* then an empty content, then deleting that name leaves both maps empty
\* and storage_usage = l1 + .. + lk, for any total within the ceiling.
\* The values leave room for 3 bytes, for exactly MAX_FILE_SIZE bytes, and
\* for one content of MAX_FILE_SIZE bytes followed by one of
\* MAX_FILE_SIZE + 1 bytes, so that the per-file cap is met while the
\* capacity still suffices.
NearCapUsage ==
    {MAX_STORAGE_SIZE - 3,
     MAX_STORAGE_SIZE - MAX_FILE_SIZE,
     MAX_STORAGE_SIZE - 2 * MAX_FILE_SIZE - 1}

InitNearCap ==
    /\ files = EmptyMap
    /\ file_chunks = EmptyMap
    /\ storage_usage \in NearCapUsage
    /\ max_storage_size = MAX_STORAGE_SIZE
    /\ time = 0
    /\ ret = Reply("init", "", "Ok", {})
    /\ uploaded = [n \in Names |-> {}]
    /\ made = {}
    /\ writes = 0

NextNearCap == Step(CapUploads)

SpecNearCap == InitNearCap /\ [][NextNearCap]_vars

\* ------------------------------------------------------------ claims
RECURSIVE SumLen(_)
SumLen(S) ==
    IF S = {} THEN 0
    ELSE LET n == CHOOSE x \in S : TRUE
         IN ByteLen(files[n].content) + SumLen(S \ {n})

\* Sum of the content lengths of the files in the primary map.
LiveSum == SumLen(DOMAIN files)

IsPrefix(s, t) == Len(s) <= Len(t) /\ SubSeq(t, 1, Len(s)) = s

History(f) == f.metadata.version_history

\* The step is the handling of call op on name (every handler sets ret).
Called(op, name) == ret'.op = op /\ ret'.name = name

\* C1: storage_usage equals the sum of the content lengths of the files in
\* the primary map, in every reachable state.
C1_UsageIsLiveSum == storage_usage = LiveSum

\* C2: a download of a name that was uploaded and not deleted since returns
\* a File whose content is the content of the latest successful upload of
\* that name, whatever metadata updates and versions came in between.
C2_DownloadReturnsUpload ==
    ret.op = "download_file" /\ uploaded[ret.name] # {} =>
        /\ ret.res = "Ok"
        /\ ret.out # {}
        /\ {f.content : f \in ret.out} = uploaded[ret.name]

\* A download served after the file had its tags replaced, its
\* last_modified moved and a version recorded.
C2_Witness ==
    /\ ret.op = "download_file"
    /\ ret.res = "Ok"
    /\ \E f \in ret.out :
          /\ History(f) # <<>>
          /\ f.metadata.tags = <<"x">>
          /\ f.metadata.last_modified > f.metadata.upload_timestamp

\* C3: upload_file answers StorageLimit exactly when the content is longer
\* than MAX_FILE_SIZE or storage_usage + length is above the 1 GiB ceiling,
\* and Ok otherwise (so a length of exactly MAX_FILE_SIZE and a total of
\* exactly the ceiling are accepted); a refused upload leaves storage_usage
\* as it was.
C3_UploadLimit ==
    [][\A n \in Names, u \in CapUploads :
          Called("upload_file", n)
          /\ upload_file(n, u.content, u.file_type, u.tags) =>
             LET len == ByteLen(u.content) IN
             /\ ret'.res = IF len > MAX_FILE_SIZE
                              \/ storage_usage + len > MAX_STORAGE_SIZE
                           THEN "StorageLimit" ELSE "Ok"
             /\ ret'.res = "StorageLimit" => storage_usage' = storage_usage
      ]_vars

\* An upload refused by the per-file cap alone: a content of exactly
\* MAX_FILE_SIZE bytes was accepted and is stored, and the refused upload
\* found room for MAX_FILE_SIZE + 1 bytes, so every content on offer
\* passes the capacity check and only the one of MAX_FILE_SIZE + 1 bytes
\* can have been refused.
C3_Witness ==
    /\ ret.op = "upload_file"
    /\ ret.res = "StorageLimit"
    /\ storage_usage + MAX_FILE_SIZE + 1 = MAX_STORAGE_SIZE
    /\ \E n \in DOMAIN files : ByteLen(files[n].content) = MAX_FILE_SIZE

\* C4: a successful delete_file(n) removes n from the primary map and
\* lowers storage_usage by exactly the deleted content's length; a download
\* of a name with no upload since its deletion answers FileNotFound.
C4_DeleteRemoves ==
    [][/\ \A n \in Names :
             Called("delete_file", n) /\ delete_file(n) /\ ret'.res = "Ok" =>
                /\ n \notin DOMAIN files'
                /\ storage_usage' = storage_usage - ByteLen(files[n].content)
       /\ \A n \in Names :
             Called("download_file", n) /\ download_file(n) /\ uploaded[n] = {}
                => ret'.res = "FileNotFound"
      ]_vars

\* "a" was just deleted while "a_1" stays, and the counter is what the
\* remaining file accounts for.
C4_Witness ==
    /\ ret = Reply("delete_file", "a", "Ok", {})
    /\ DOMAIN files = {"a_1"}
    /\ storage_usage = ByteLen(files["a_1"].content)
    /\ storage_usage > 0

\* C5: a call that answers with an error leaves files, file_chunks and
\* storage_usage exactly as they were.
C5_ErrorsLeaveState ==
    [][ret'.res # "Ok" => UNCHANGED <<files, file_chunks, storage_usage>>]_vars

\* delete_file answered FileNotFound for a name that is no file but does
\* key a chunk shard (a version id), with a file still stored.
C5_Witness ==
    /\ ret.op = "delete_file"
    /\ ret.res = "FileNotFound"
    /\ ret.name \in DOMAIN file_chunks
    /\ files # EmptyMap

\* C6: a successful create_file_version(n, c) changes nothing of the file
\* map but n's version_history, which gets exactly one id appended; content,
\* size, tags, last_modified, the other files and storage_usage stay.
C6_VersionFrame ==
    [][\A n \in Names, c \in VersionContents :
          Called("create_file_version", n)
          /\ create_file_version(n, c) /\ ret'.res = "Ok" =>
             /\ \E id \in DOMAIN file_chunks' :
                   files' = [files EXCEPT
                               ![n].metadata.version_history = Append(@, id)]
             /\ storage_usage' = storage_usage
      ]_vars

\* A version was just recorded for a file whose last_modified is older than
\* the clock, next to another file.
C6_Witness ==
    /\ ret.op = "create_file_version"
    /\ ret.res = "Ok"
    /\ History(files[ret.name]) = <<version_id(ret.name, get_current_timestamp)>>
    /\ files[ret.name].metadata.last_modified < get_current_timestamp
    /\ Cardinality(DOMAIN files) = 2

\* C7 (as stated): for every name in the file map before and after an
\* operation, upload_file included, the version_history before is a prefix
\* of the version_history after.
C7_AppendOnly ==
    [][\A n \in DOMAIN files \cap DOMAIN files' :
          IsPrefix(History(files[n]), History(files'[n]))]_vars

\* C7 (amended): the same for every operation but a successful upload_file
\* of that name, which stores a fresh record whose version_history is empty.
C7_AppendOnlyUnlessReuploaded ==
    [][\A n \in DOMAIN files \cap DOMAIN files' :
          IF /\ Called("upload_file", n)
             /\ \E u \in Uploads \cup CapUploads :
                   upload_file(n, u.content, u.file_type, u.tags) /\ ret'.res = "Ok"
          THEN History(files'[n]) = <<>>
          ELSE IsPrefix(History(files[n]), History(files'[n]))]_vars

\* A name was uploaded again while it had a recorded version.
C7_Witness ==
    /\ ret.op = "upload_file"
    /\ ret.res = "Ok"
    /\ \E v \in made : v.name = ret.name
    /\ History(files[ret.name]) = <<>>

\* C8: every file stored under key K has a chunk shard under K whose blocks
\* put together in order are the file's content.
C8_ShardMatchesContent ==
    \A k \in DOMAIN files :
        /\ k \in DOMAIN file_chunks
        /\ Reassemble(file_chunks[k]) = files[k].content

\* C9: for every successful create_file_version(n, c) whose file has stayed
\* in the map, the version id of that call keys a chunk shard whose blocks
\* put together are c.
C9_VersionShardKept ==
    \A v \in made :
        /\ v.id \in DOMAIN file_chunks
        /\ Reassemble(file_chunks[v.id]) = v.content

\* C10: a successful update_file_metadata(n, new_tags) sets tags to new_tags
\* when given and keeps them otherwise, sets last_modified to the current
\* time, and changes nothing else of the file map, the chunk-shard map or
\* storage_usage.
C10_UpdateFrame ==
    [][\A n \in Names, nt \in OptTagLists :
          Called("update_file_metadata", n)
          /\ update_file_metadata(n, nt) /\ ret'.res = "Ok" =>
             /\ files' = [files EXCEPT
                   ![n].metadata.tags = IF nt = <<>> THEN @ ELSE nt[1],
                   ![n].metadata.last_modified = time \div NANOS_PER_SEC]
             /\ UNCHANGED <<file_chunks, storage_usage>>
      ]_vars

\* Tags were just replaced and last_modified moved past upload_timestamp,
\* for a file that has a version and a neighbour.
C10_Witness ==
    /\ ret.op = "update_file_metadata"
    /\ ret.res = "Ok"
    /\ files[ret.name].metadata.tags = <<"x">>
    /\ files[ret.name].metadata.last_modified
          > files[ret.name].metadata.upload_timestamp
    /\ History(files[ret.name]) # <<>>
    /\ Cardinality(DOMAIN files) = 2

\* C11: search_by_tags(q) answers exactly the stored files whose tag list
\* holds every tag of q, whatever the order and repetitions in q; an empty q
\* answers every stored file.
C11_SearchExact ==
    [][\A q \in TagQueries :
          Called("search_by_tags", "") /\ search_by_tags(q) =>
             /\ ret'.out =
                   {files[n] : n \in {m \in DOMAIN files :
                       {q[i] : i \in 1..Len(q)} \subseteq
                          {files[m].metadata.tags[j] :
                              j \in 1..Len(files[m].metadata.tags)}}}
             /\ q = <<>> => ret'.out = {files[n] : n \in DOMAIN files}
      ]_vars

\* A search answered one of two stored files and left the other out.
C11_Witness ==
    /\ ret.op = "search_by_tags"
    /\ Cardinality(DOMAIN files) = 2
    /\ Cardinality(ret.out) = 1

\* C12 (as stated): a successful delete_file(n) leaves every chunk shard that
\* create_file_version stored under a version id, of n or of another file,
\* present and unchanged.
C12_DeleteKeepsVersionShards ==
    [][\A n \in Names :
          Called("delete_file", n) /\ delete_file(n) /\ ret'.res = "Ok" =>
             \A v \in made :
                (/\ v.id \in DOMAIN file_chunks
                 /\ Reassemble(file_chunks[v.id]) = v.content) =>
                   /\ v.id \in DOMAIN file_chunks'
                   /\ file_chunks'[v.id] = file_chunks[v.id]
      ]_vars

\* C13: every file stored under key K has name K, metadata.name K and
\* metadata.size equal to the length of its content.
C13_RecordConsistent ==
    \A k \in DOMAIN files :
        /\ files[k].name = k
        /\ files[k].metadata.name = k
        /\ files[k].metadata.size = ByteLen(files[k].content)

\* Two files of different sizes, one of them with a version and replaced tags.
C13_Witness ==
    /\ DOMAIN files = Names
    /\ files["a"].metadata.size # files["a_1"].metadata.size
    /\ \E k \in Names :
          History(files[k]) # <<>> /\ files[k].metadata.tags = <<"x">>

\* C14: get_storage_analytics answers (storage_usage, 1073741824, number of
\* files in the map) and changes no state; the count is the number of names
\* uploaded and not deleted since.
C14_Analytics ==
    [][Called("get_storage_analytics", "") /\ get_storage_analytics =>
          /\ ret'.out = {[usage    |-> storage_usage,
                          capacity |-> MAX_STORAGE_SIZE,
                          count    |-> Cardinality({n \in Names : uploaded[n] # {}})]}
          /\ UNCHANGED <<store, time, uploaded, made>>
      ]_vars

\* The analytics after "a" was uploaded with 3 bytes and again with 4: one
\* file, while a version shard is stored as well.
C14_Witness ==
    /\ ret.op = "get_storage_analytics"
    /\ ret.out = {[usage |-> 7, capacity |-> MAX_STORAGE_SIZE, count |-> 1]}
    /\ Cardinality(DOMAIN file_chunks) = 2

RECURSIVE SumCounts(_, _)
SumCounts(d, S) ==
    IF S = {} THEN 0
    ELSE LET t == CHOOSE x \in S : TRUE IN d[t] + SumCounts(d, S \ {t})

\* C15: get_file_type_distribution answers a map whose keys are exactly the
\* file_type strings of the stored files, each with the number of stored
\* files of that type (none 0, summing to the number of files), and changes
\* no state.
C15_Distribution ==
    [][Called("get_file_type_distribution", "") /\ get_file_type_distribution =>
          /\ \E r \in ret'.out :
                /\ ret'.out = {r}
                /\ DOMAIN r.counts = {files[n].metadata.file_type : n \in DOMAIN files}
                /\ \A t \in DOMAIN r.counts :
                      /\ r.counts[t] =
                            Cardinality({n \in DOMAIN files :
                                            files[n].metadata.file_type = t})
                      /\ r.counts[t] > 0
                /\ SumCounts(r.counts, DOMAIN r.counts) = Cardinality(DOMAIN files)
          /\ UNCHANGED <<store, time, uploaded, made>>
      ]_vars

\* The distribution of two stored files of the same type.
C15_Witness ==
    /\ ret.op = "get_file_type_distribution"
    /\ ret.out = {[counts |-> [t \in {"text"} |-> 2]]}

\* C16: a successful upload_file adds exactly the content's length to
\* storage_usage whether or not the name is already stored, and stores the
\* new file and its shard under the name.
C16_UploadAddsLength ==
    [][\A n \in Names, u \in Uploads :
          Called("upload_file", n)
          /\ upload_file(n, u.content, u.file_type, u.tags) /\ ret'.res = "Ok" =>
             /\ storage_usage' = storage_usage + ByteLen(u.content)
             /\ files'[n].content = u.content
             /\ file_chunks'[n] = chunks(u.content, CHUNK_SIZE)
             /\ DOMAIN files' = DOMAIN files \cup {n}
      ]_vars

\* "a" uploaded with 3 bytes, then with 4: one file, storage_usage = 7.
C16_Witness ==
    /\ ret = Reply("upload_file", "a", "Ok", {})
    /\ DOMAIN files = {"a"}
    /\ files["a"].content = Bytes1234
    /\ storage_usage = 7

\* blocks is ceil(n / CHUNK_SIZE) blocks, all of CHUNK_SIZE bytes but the
\* last, which has between 1 and CHUNK_SIZE bytes.
ShardShape(blocks, n) ==
    /\ Len(blocks) = (n + CHUNK_SIZE - 1) \div CHUNK_SIZE
    /\ \A i \in 1..Len(blocks) :
          /\ ByteLen(blocks[i]) >= 1
          /\ ByteLen(blocks[i]) <= CHUNK_SIZE
          /\ i < Len(blocks) => ByteLen(blocks[i]) = CHUNK_SIZE

\* C17: the shard stored by a successful upload_file or create_file_version
\* for a content of length n has ceil(n / CHUNK_SIZE) blocks, each of
\* CHUNK_SIZE bytes except the last (1..CHUNK_SIZE bytes); none is empty and
\* an empty content gives no block.
C17_ShardShape ==
    [][/\ \A n \in Names, u \in CapUploads :
             Called("upload_file", n)
             /\ upload_file(n, u.content, u.file_type, u.tags) /\ ret'.res = "Ok" =>
                ShardShape(file_chunks'[n], ByteLen(u.content))
       /\ \A n \in Names, c \in VersionContents :
             Called("create_file_version", n)
             /\ create_file_version(n, c) /\ ret'.res = "Ok" =>
                /\ ShardShape(file_chunks'[version_id(n, get_current_timestamp)],
                              ByteLen(c))
                /\ c = <<>> =>
                      file_chunks'[version_id(n, get_current_timestamp)] = <<>>
      ]_vars

\* Shards of 0, 10 and 11 blocks are stored, the last block of the longest
\* holding a single byte.
C17_Witness ==
    /\ {Len(file_chunks[k]) : k \in DOMAIN file_chunks} = {0, 10, 11}
    /\ \E k \in DOMAIN file_chunks :
          Len(file_chunks[k]) = 11 /\ ByteLen(file_chunks[k][11]) = 1

\* C18: storage_usage never exceeds max_storage_size, which stays 1 GiB.
C18_UsageWithinCeiling ==
    /\ storage_usage <= max_storage_size
    /\ max_storage_size = MAX_STORAGE_SIZE

\* The counter stands exactly at the ceiling and an upload was refused.
C18_Witness ==
    /\ storage_usage = MAX_STORAGE_SIZE
    /\ ret.op = "upload_file"
    /\ ret.res = "StorageLimit"
    /\ files # EmptyMap

\* C19: storage_usage is at least the sum of the stored contents' lengths,
\* so the subtraction in delete_file never goes below zero.
C19_UsageCoversLiveSum == storage_usage >= LiveSum

\* A delete succeeded on a counter that overwrites had pushed above the
\* stored bytes, with a file left.
C19_Witness ==
    /\ ret.op = "delete_file"
    /\ ret.res = "Ok"
    /\ files # EmptyMap
    /\ storage_usage > LiveSum

Drift == storage_usage - LiveSum

\* C20: storage_usage minus the stored bytes never decreases, and a
\* successful upload_file over a stored name raises it by the length of the
\* content it replaces.
C20_DriftNeverShrinks ==
    [][/\ Drift' >= Drift
       /\ \A n \in DOMAIN files :
             Called("upload_file", n) /\ ret'.res = "Ok" /\ writes' = writes + 1 =>
                Drift' = Drift + ByteLen(files[n].content)
      ]_vars

\* After two uploads of one name and its deletion the map is empty, the
\* counter is 3 bytes above where it started, and an upload of exactly
\* MAX_FILE_SIZE bytes is refused although nothing is stored.
C20_Witness ==
    /\ files = EmptyMap
    /\ writes = 2
    /\ storage_usage = MAX_STORAGE_SIZE - MAX_FILE_SIZE + 3
    /\ ret.op = "upload_file"
    /\ ret.res = "StorageLimit"
    /\ ~over_file_size(ByteLen(BytesAtCap))
    /\ over_capacity(storage_usage, ByteLen(BytesAtCap), max_storage_size)
    /\ LiveSum + ByteLen(BytesAtCap) <= max_storage_size
====
